---- MODULE Spec2Model ----
(***************************************************************************)
(* Model of terrain-server (src/terrain-server/src/main.rs): the player    *)
(* registry (AppState.players, a tokio RwLock<Vec<Player>>), the broadcast *)
(* channel (AppState.tx) and the websocket sessions (handle_socket).       *)
(*                                                                         *)
(* The mutating handlers take the write lock on their first line and keep  *)
(* the guard until they return, so each is three steps: lock and mutate,   *)
(* tx.send, return (which drops the guard); move_player assigns x and z in *)
(* two steps.  Readers hold the read lock                                  *)
(* for one statement only and are a single step each.  subscribe() and     *)
(* the forwarding of bus events do not touch the lock.                     *)
(***************************************************************************)
EXTENDS Integers, Sequences, FiniteSets, TLC

\* ---------------------------------------------------------------- bounds
NumSessions == 2        \* websocket connections that may be opened
MaxWork == 5            \* work done in a run of Spec: see Work
MaxLiveWork == 4        \* work done in a run of FairSpec
MaxMoveId == 2          \* move requests name player_1 .. player_MaxMoveId
MaxLagExtra == 2        \* tx.send calls beyond the channel's capacity in a run of LagSpec
MaxLagTaken == 2        \* events the slow client of LagSpec takes before it stalls

Sessions == 1..NumSessions
\* the (x, z) pairs requests carry: two points that differ in both coordinates
Points == {<<0, 0>>, <<1, 1>>}

VARIABLES
    players,    \* AppState.players: the Vec<Player> behind the RwLock
    writer,     \* the handler holding the write guard, and where it is
    bus,        \* values stored in the broadcast channel, oldest first
    sent,       \* history: every value handed to tx.send, in order
    resp,       \* the last HTTP response returned by a handler
    created,    \* history: the players returned by create_player, in order
    pc,         \* per session: position in handle_socket
    cursor,     \* per session: rx's next position in the channel
    snapshot,   \* per session: the Vec cloned for initial_state
    open,       \* per session: the websocket still accepts writes
    send_task,  \* per session: the spawned forwarding task
    recv_task,  \* per session: the spawned receiving task
    conn,       \* per session: the messages written to the websocket
    subAt,      \* history, per session: Len(sent) when subscribe() was called
    snapAt,     \* history, per session: Len(sent) when the snapshot was read
    fwd         \* history, per session: publication numbers forwarded

vars == <<players, writer, bus, sent, resp, created, pc, cursor, snapshot,
          open, send_task, recv_task, conn, subAt, snapAt, fwd>>

regVars == <<players, writer, resp, created>>
busVars == <<bus, sent>>
sessVars == <<pc, cursor, snapshot, open, send_task, recv_task, conn,
              subAt, snapAt, fwd>>

\* ------------------------------------------------------------ data types
\* format!("player_{}", n)
PlayerId(n) == <<"player_", n>>

\* faulty variant: the server fills in y
PlayerWithHeight(id, x, z) == [id |-> id, x |-> x, z |-> z, y |-> "0.0"]

\* struct Player; y is always None on the server
Player(id, x, z) == [id |-> id, x |-> x, z |-> z, y |-> "None"]

\* enum PlayerUpdate, tagged by "type" as serde renames the variants
Created(p) == [type |-> "player_created", player |-> p]
Moved(id, x, z) == [type |-> "player_moved", id |-> id, x |-> x, z |-> z]
AllCleared == [type |-> "all_cleared"]
InitialState(ps) == [type |-> "initial_state", players |-> ps]

NoEvent == [type |-> "none"]
NoWriter == [op |-> "none", pc |-> "none", ev |-> NoEvent, resp |-> [kind |-> "none"]]

\* ------------------------------------------------------------- registry
\* players.iter_mut().find(|p| p.id == req.id): first index holding id, 0 if none
RECURSIVE FindFrom(_, _, _)
FindFrom(ps, id, i) ==
    IF i > Len(ps) THEN 0
    ELSE IF ps[i].id = id THEN i
    ELSE FindFrom(ps, id, i + 1)

\* faulty variant: an unknown id falls back to the first player
findOrFirst(ps, id) ==
    IF FindFrom(ps, id, 1) = 0 /\ ps # <<>> THEN 1 ELSE FindFrom(ps, id, 1)

find(ps, id) == FindFrom(ps, id, 1)

\* faulty variant: the id does not depend on the registry
NewIdFixed(ps) == PlayerId(1)

\* let id = format!("player_{}", players.len() + 1)
NewId(ps) == PlayerId(Len(ps) + 1)

\* faulty variant: players.truncate(1)
ClearedButFirst(ps) == IF ps = <<>> THEN <<>> ELSE <<ps[1]>>

\* players.clear()
Cleared(ps) == <<>>

\* ------------------------------------------------------------ broadcast
\* faulty variant: the receiver only counts once the forwarding task runs
RxCountStreaming ==
    Cardinality({s \in Sessions : pc[s] = "streaming" /\ send_task[s] = "running"})

\* a session owns a live Receiver from subscribe() until its send_task ends
RxAlive(s) ==
    \/ pc[s] \in {"subscribed", "snapshot"}
    \/ pc[s] \in {"streaming", "closed"} /\ send_task[s] \in {"running", "cancelling"}

RxCount == Cardinality({s \in Sessions : RxAlive(s)})

\* main, line 36: broadcast::channel::<PlayerUpdate>(100)
RequestedCapacity == 100

\* usize::next_power_of_two
RECURSIVE PowerOfTwoFrom(_, _)
PowerOfTwoFrom(n, p) == IF p >= n THEN p ELSE PowerOfTwoFrom(n, 2 * p)

\* the channel keeps the newest Capacity values: tokio's broadcast::channel
\* rounds the requested capacity up to a power of two
Capacity == PowerOfTwoFrom(RequestedCapacity, 1)

\* values stored since the receiver's position
Unread(b, c) == Len(b) + 1 - c

\* faulty variant: the receiver never reports that it was overtaken
LaggedNever(s) == FALSE

\* the value at the receiver's position has been overwritten
Lagged(s) == Unread(bus, cursor[s]) > Capacity

\* faulty variant: the new receiver starts one past the tail
TailPosSkip(b) == Len(b) + 2

\* faulty variant: the new receiver starts at the oldest value of the channel
TailPosOldest(b) == 1

\* tx.subscribe(): the new receiver starts at the tail of the channel
TailPos(b) == Len(b) + 1

\* tx.send(ev): stored for the receivers, or Err (value dropped) when there is none;
\* n is the value's publication number
Stored(b, ev, n) == Append(b, [ev |-> ev, n |-> n])

\* faulty variant: the sender waits for room in every receiver's queue
PublishBounded(ev) ==
    /\ \A s \in Sessions : RxAlive(s) => Unread(bus, cursor[s]) < Capacity
    /\ sent' = Append(sent, ev)
    /\ bus' = IF RxCount = 0 THEN bus ELSE Stored(bus, ev, Len(sent) + 1)

Publish(ev) ==
    /\ sent' = Append(sent, ev)
    /\ bus' = IF RxCount = 0 THEN bus ELSE Stored(bus, ev, Len(sent) + 1)

\* --------------------------------------------------------- create_player
\* faulty variant: players.insert(0, player.clone())
PushFront(ps, p) == <<p>> \o ps

\* players.push(player.clone())
Push(ps, p) == Append(ps, p)

\* lines 147-156: take the write lock, build the player, push it
create_lock(x, z) ==
    /\ writer = NoWriter
    /\ LET player == Player(NewId(players), x, z) IN
        /\ players' = Push(players, player)
        /\ writer' = [op |-> "create", pc |-> "mutated", ev |-> Created(player),
                      resp |-> [kind |-> "player", player |-> player]]
    /\ UNCHANGED <<resp, created, busVars, sessVars>>

\* lines 159-161: let _ = state.tx.send(PlayerUpdate::Created { .. })
create_send ==
    /\ writer.op = "create" /\ writer.pc = "mutated"
    /\ Publish(writer.ev)
    /\ writer' = [writer EXCEPT !.pc = "published"]
    /\ UNCHANGED <<players, resp, created, sessVars>>

\* line 163-164: Json(player); the write guard is dropped
create_return ==
    /\ writer.op = "create" /\ writer.pc = "published"
    /\ resp' = writer.resp
    /\ created' = Append(created, writer.resp.player)
    /\ writer' = NoWriter
    /\ UNCHANGED <<players, busVars, sessVars>>

create_player ==
    \/ \E p \in Points : create_lock(p[1], p[2])
    \/ create_send
    \/ create_return

\* ----------------------------------------------------------- move_player
\* line 180: player.x = req.x, on the element find returned
SetX(ps, i, x) == [ps EXCEPT ![i].x = x]

\* faulty variant: the z assignment is dropped
SetZDropped(ps, i, z) == ps

\* line 181: player.z = req.z
SetZ(ps, i, z) == [ps EXCEPT ![i].z = z]

\* lines 177-180 and 191-193: take the write lock, find, assign x
move_lock(id, x, z) ==
    /\ writer = NoWriter
    /\ LET i == find(players, id) IN
        IF i # 0
        THEN /\ players' = SetX(players, i, x)
             /\ writer' = [op |-> "move", pc |-> "half", ev |-> Moved(id, x, z),
                           req |-> id, resp |-> [kind |-> "moved", id |-> id, x |-> x, z |-> z]]
        ELSE /\ players' = players
             /\ writer' = [op |-> "move", pc |-> "mutated", ev |-> NoEvent,
                           req |-> id, resp |-> [kind |-> "not_found", id |-> id]]
    /\ UNCHANGED <<resp, created, busVars, sessVars>>

\* line 181: assign z, still under the write guard
move_set_z ==
    /\ writer.op = "move" /\ writer.pc = "half"
    /\ players' = SetZ(players, find(players, writer.req), writer.ev.z)
    /\ writer' = [writer EXCEPT !.pc = "mutated"]
    /\ UNCHANGED <<resp, created, busVars, sessVars>>

\* faulty variant: the move is announced between the two assignments
move_send_early ==
    /\ writer.op = "move" /\ writer.pc \in {"half", "mutated"}
    /\ writer.ev # NoEvent
    /\ Publish(writer.ev)
    /\ writer' = [writer EXCEPT !.pc = "published"]
    /\ UNCHANGED <<players, resp, created, sessVars>>

\* lines 184-188: let _ = state.tx.send(PlayerUpdate::Moved { .. }), found branch only
move_send ==
    /\ writer.op = "move" /\ writer.pc = "mutated"
    /\ writer.ev # NoEvent
    /\ Publish(writer.ev)
    /\ writer' = [writer EXCEPT !.pc = "published"]
    /\ UNCHANGED <<players, resp, created, sessVars>>

\* lines 190-194: the status string; the write guard is dropped
move_return ==
    /\ writer.op = "move"
    /\ \/ writer.pc = "published"
       \/ writer.pc = "mutated" /\ writer.ev = NoEvent
    /\ resp' = writer.resp
    /\ writer' = NoWriter
    /\ UNCHANGED <<players, created, busVars, sessVars>>

MoveIds == {PlayerId(n) : n \in 1..MaxMoveId}

move_player ==
    \/ \E id \in MoveIds, p \in Points : move_lock(id, p[1], p[2])
    \/ move_set_z
    \/ move_send
    \/ move_return

\* --------------------------------------------------------- clear_players
\* lines 197-199: take the write lock, players.clear()
clear_lock ==
    /\ writer = NoWriter
    /\ players' = Cleared(players)
    /\ writer' = [op |-> "clear", pc |-> "mutated", ev |-> AllCleared,
                  resp |-> [kind |-> "cleared"]]
    /\ UNCHANGED <<resp, created, busVars, sessVars>>

\* line 202: let _ = state.tx.send(PlayerUpdate::AllCleared)
clear_send ==
    /\ writer.op = "clear" /\ writer.pc = "mutated"
    /\ Publish(writer.ev)
    /\ writer' = [writer EXCEPT !.pc = "published"]
    /\ UNCHANGED <<players, resp, created, sessVars>>

\* line 204-205: "All players cleared"; the write guard is dropped
clear_return ==
    /\ writer.op = "clear" /\ writer.pc = "published"
    /\ resp' = writer.resp
    /\ writer' = NoWriter
    /\ UNCHANGED <<players, created, busVars, sessVars>>

clear_players == clear_lock \/ clear_send \/ clear_return

\* ----------------------------------------------------------- get_players
\* faulty variant: the Vec is cloned without the read lock
get_players_unlocked ==
    /\ resp' = [kind |-> "list", players |-> players]
    /\ UNCHANGED <<players, writer, created, busVars, sessVars>>

\* lines 133-134: read lock, Json(players.clone())
get_players ==
    /\ writer = NoWriter
    /\ resp' = [kind |-> "list", players |-> players]
    /\ UNCHANGED <<players, writer, created, busVars, sessVars>>

\* ------------------------------------------------------------- list_maps
\* a filename is the sequence of its characters; a directory entry is a name
\* and whether file_type() says it is a regular file
MaxFiles == 3

Ext == <<".", "j", "s", "o", "n">>
Entry(name, is_file) == [name |-> name, is_file |-> is_file]

tile_2_json == <<"t", "i", "l", "e", "_", "2">> \o Ext
tile_10_json == <<"t", "i", "l", "e", "_", "1", "0">> \o Ext
overview_json == <<"o", "v", "e", "r", "v", "i", "e", "w">> \o Ext
tile_2_a_json == <<"t", "i", "l", "e", "_", "2", "_", "a">> \o Ext
map_2_b_json == <<"m", "a", "p", "_", "2", "_", "b">> \o Ext
tile_10_c_json == <<"t", "i", "l", "e", "_", "1", "0", "_", "c">> \o Ext
tile_1_txt == <<"t", "i", "l", "e", "_", "1", "_", ".", "t", "x", "t">>
tile_0_d_json == <<"t", "i", "l", "e", "_", "0", "_", "d">> \o Ext

\* what read_dir may list: regular files, and one directory named like a map
Pool ==
    {Entry(n, TRUE) : n \in {tile_2_json, tile_10_json, overview_json, tile_2_a_json,
                             map_2_b_json, tile_10_c_json, tile_1_txt}}
        \cup {Entry(tile_0_d_json, FALSE)}

\* read_dir yields the entries in no particular order
Dirs ==
    {d \in UNION {[1..n -> Pool] : n \in 0..MaxFiles} :
        \A i, j \in DOMAIN d : d[i] = d[j] => i = j}

\* the bytes of the characters used, as str's Ord compares them
Byte(c) ==
    CASE c = "." -> 46 [] c = "0" -> 48 [] c = "1" -> 49 [] c = "2" -> 50
      [] c = "_" -> 95 [] c = "a" -> 97 [] c = "b" -> 98 [] c = "c" -> 99
      [] c = "d" -> 100 [] c = "e" -> 101 [] c = "i" -> 105 [] c = "j" -> 106
      [] c = "l" -> 108 [] c = "m" -> 109 [] c = "n" -> 110 [] c = "o" -> 111
      [] c = "p" -> 112 [] c = "r" -> 114 [] c = "s" -> 115 [] c = "t" -> 116
      [] c = "v" -> 118 [] c = "w" -> 119 [] c = "x" -> 120

\* Option<u32>
None == <<>>
Some(n) == <<n>>

\* line 99: name.ends_with(".json")
ends_with(name, suffix) ==
    /\ Len(name) >= Len(suffix)
    /\ SubSeq(name, Len(name) - Len(suffix) + 1, Len(name)) = suffix

\* lines 95-103: the names of the regular files ending in .json, in read_dir order
Listed(dir) ==
    LET kept == SelectSeq(dir, LAMBDA e : e.is_file /\ ends_with(e.name, Ext))
    IN  [i \in DOMAIN kept |-> kept[i].name]

\* line 113: s.split('_')
RECURSIVE SplitFrom(_, _, _)
SplitFrom(s, i, part) ==
    IF i > Len(s) THEN <<part>>
    ELSE IF s[i] = "_" THEN <<part>> \o SplitFrom(s, i + 1, <<>>)
    ELSE SplitFrom(s, i + 1, Append(part, s[i]))

split(s) == SplitFrom(s, 1, <<>>)

\* line 114: .nth(1), the second item if there is one
nth1(parts) == IF Len(parts) >= 2 THEN Some(parts[2]) ELSE None

\* part.parse::<u32>().ok(): an optional '+', then one or more decimal digits and
\* nothing else.  The names of Pool hold at most two digits, so the overflow of
\* u32 (ten digits or more) is not among the cases.
IsDigit(c) == Byte(c) \in 48..57

RECURSIVE DigitsFrom(_, _, _)
DigitsFrom(s, i, acc) ==
    IF i > Len(s) THEN Some(acc)
    ELSE IF ~IsDigit(s[i]) THEN None
    ELSE DigitsFrom(s, i + 1, acc * 10 + (Byte(s[i]) - 48))

parse_u32(part) ==
    LET digits == IF part # <<>> /\ part[1] = "+" THEN Tail(part) ELSE part
    IN  IF digits = <<>> THEN None ELSE DigitsFrom(digits, 1, 0)

\* lines 112-116
extract_num(s) ==
    LET part == nth1(split(s)) IN IF part = None THEN None ELSE parse_u32(part[1])

\* String's Ord: byte by byte, a proper prefix first
RECURSIVE StrCmpFrom(_, _, _)
StrCmpFrom(a, b, i) ==
    IF i > Len(a) /\ i > Len(b) THEN "Equal"
    ELSE IF i > Len(a) THEN "Less"
    ELSE IF i > Len(b) THEN "Greater"
    ELSE IF Byte(a[i]) < Byte(b[i]) THEN "Less"
    ELSE IF Byte(a[i]) > Byte(b[i]) THEN "Greater"
    ELSE StrCmpFrom(a, b, i + 1)

cmp(a, b) == StrCmpFrom(a, b, 1)

\* lines 118-126: the closure given to sort_by
Compare(a, b) ==
    LET num_a == extract_num(a)
        num_b == extract_num(b)
    IN  IF num_a # None /\ num_b # None
        THEN IF num_a[1] < num_b[1] THEN "Less"
             ELSE IF num_a[1] > num_b[1] THEN "Greater" ELSE "Equal"
        ELSE IF num_a # None THEN "Less"
        ELSE IF num_b # None THEN "Greater"
        ELSE cmp(a, b)

\* line 111: maps.sort_by(..) is a stable sort: an element goes behind everything
\* that does not compare Greater than it
Inserted(q, x) ==
    LET k == Cardinality({i \in DOMAIN q : Compare(q[i], x) # "Greater"})
    IN  SubSeq(q, 1, k) \o <<x>> \o SubSeq(q, k + 1, Len(q))

RECURSIVE SortFrom(_, _, _)
SortFrom(q, s, i) ==
    IF i > Len(s) THEN q ELSE SortFrom(Inserted(q, s[i]), s, i + 1)

sort_by(s) == SortFrom(<<>>, s, 1)

\* lines 91-129; a read_dir error leaves maps empty, as an empty directory does.
\* The handler touches neither the registry nor the channel.
list_maps ==
    /\ \E dir \in Dirs :
        resp' = [kind |-> "maps", dir |-> dir, maps |-> sort_by(Listed(dir))]
    /\ UNCHANGED <<players, writer, created, busVars, sessVars>>

\* --------------------------------------------------------- handle_socket
\* sender.send(Message::Text(json)): an open websocket takes the message, a closed
\* one returns Err.  serde_json::to_string cannot fail on PlayerUpdate (strings,
\* f32 and Option<f32> only), so the `if let Ok(json)` branches are always taken.
Written(c, msg) == Append(c, msg)

\* line 213: let mut rx = state.tx.subscribe()
subscribe(s) ==
    /\ pc[s] = "new"
    /\ pc' = [pc EXCEPT ![s] = "subscribed"]
    /\ cursor' = [cursor EXCEPT ![s] = TailPos(bus)]
    /\ subAt' = [subAt EXCEPT ![s] = Len(sent)]
    /\ UNCHANGED <<regVars, busVars, snapshot, open, send_task, recv_task, conn,
                   snapAt, fwd>>

\* lines 216-217: state.players.read().await.clone(), under the read lock
read_snapshot(s) ==
    /\ pc[s] = "subscribed"
    /\ writer = NoWriter
    /\ snapshot' = [snapshot EXCEPT ![s] = players]
    /\ snapAt' = [snapAt EXCEPT ![s] = Len(sent)]
    /\ pc' = [pc EXCEPT ![s] = "snapshot"]
    /\ UNCHANGED <<regVars, busVars, cursor, open, send_task, recv_task, conn,
                   subAt, fwd>>

\* faulty variant: initial_state goes out on the broadcast channel
send_initial_broadcast(s) ==
    /\ pc[s] = "snapshot"
    /\ Publish(InitialState(snapshot[s]))
    /\ send_task' = [send_task EXCEPT ![s] = "running"]
    /\ recv_task' = [recv_task EXCEPT ![s] = "running"]
    /\ pc' = [pc EXCEPT ![s] = "streaming"]
    /\ UNCHANGED <<regVars, cursor, snapshot, open, conn, subAt, snapAt, fwd>>

\* lines 218-244: send initial_state (the result is ignored), spawn both tasks
send_initial(s) ==
    /\ pc[s] = "snapshot"
    /\ conn' = [conn EXCEPT ![s] =
                 IF open[s] THEN Written(@, InitialState(snapshot[s])) ELSE @]
    /\ send_task' = [send_task EXCEPT ![s] = "running"]
    /\ recv_task' = [recv_task EXCEPT ![s] = "running"]
    /\ pc' = [pc EXCEPT ![s] = "streaming"]
    /\ UNCHANGED <<regVars, busVars, cursor, snapshot, open, subAt, snapAt, fwd>>

\* faulty variant: the receiver yields the newest value
RecvLatest(b, c) == b[Len(b)]

\* rx.recv() yielding Ok: the value at the receiver's position.  Err(Closed) needs
\* every Sender dropped, and AppState keeps tx for the life of the process.
Recv(b, c) == b[c]

\* lines 226-236: one turn of the forwarding loop; a failed write breaks out of it.
\* An aborted task that is being polled runs on until its next suspension.
forward(s) ==
    /\ send_task[s] \in {"running", "cancelling"}
    /\ cursor[s] <= Len(bus)
    /\ ~Lagged(s)
    /\ cursor' = [cursor EXCEPT ![s] = @ + 1]
    /\ IF open[s]
       THEN /\ conn' = [conn EXCEPT ![s] = Written(@, Recv(bus, cursor[s]).ev)]
            /\ fwd' = [fwd EXCEPT ![s] = Append(@, Recv(bus, cursor[s]).n)]
            /\ UNCHANGED send_task
       ELSE /\ send_task' = [send_task EXCEPT ![s] = "done"]
            /\ UNCHANGED <<conn, fwd>>
    /\ UNCHANGED <<regVars, busVars, pc, snapshot, open, recv_task, subAt, snapAt>>

\* line 226: rx.recv() yields Err(Lagged), `while let Ok` ends the loop and the
\* task returns, dropping rx.  The runs of Spec and FairSpec publish fewer values
\* than the channel keeps; LagSpec reaches this step.
lagged(s) ==
    /\ send_task[s] \in {"running", "cancelling"}
    /\ Lagged(s)
    /\ send_task' = [send_task EXCEPT ![s] = "done"]
    /\ UNCHANGED <<regVars, busVars, pc, cursor, snapshot, open, recv_task, conn,
                   subAt, snapAt, fwd>>

\* lines 240-244: receiver.next() yields None or Err once the peer is gone;
\* inbound messages are ignored and change nothing
recv_end(s) ==
    /\ recv_task[s] = "running"
    /\ ~open[s]
    /\ recv_task' = [recv_task EXCEPT ![s] = "done"]
    /\ UNCHANGED <<regVars, busVars, pc, cursor, snapshot, open, send_task, conn,
                   subAt, snapAt, fwd>>

\* faulty variant: the other task is not aborted
AbortNothing(t) == t

\* JoinHandle::abort(): a finished task is left alone, a live one is marked
Abort(t) == IF t = "running" THEN "cancelling" ELSE t

\* faulty variant: only send_task is awaited
select_send_only(s) ==
    /\ pc[s] = "streaming"
    /\ send_task[s] = "done"
    /\ recv_task' = [recv_task EXCEPT ![s] = Abort(@)]
    /\ pc' = [pc EXCEPT ![s] = "closed"]
    /\ UNCHANGED <<regVars, busVars, cursor, snapshot, open, send_task, conn,
                   subAt, snapAt, fwd>>

\* lines 247-250: tokio::select! on the two join handles
select(s) ==
    /\ pc[s] = "streaming"
    /\ \/ /\ send_task[s] = "done"
          /\ recv_task' = [recv_task EXCEPT ![s] = Abort(@)]
          /\ UNCHANGED send_task
       \/ /\ recv_task[s] = "done"
          /\ send_task' = [send_task EXCEPT ![s] = Abort(@)]
          /\ UNCHANGED recv_task
    /\ pc' = [pc EXCEPT ![s] = "closed"]
    /\ UNCHANGED <<regVars, busVars, cursor, snapshot, open, conn, subAt, snapAt, fwd>>

\* the runtime drops an aborted task (and the Receiver it owns) at its next poll
cancelled(s) ==
    /\ \/ /\ send_task[s] = "cancelling"
          /\ send_task' = [send_task EXCEPT ![s] = "done"]
          /\ UNCHANGED recv_task
       \/ /\ recv_task[s] = "cancelling"
          /\ recv_task' = [recv_task EXCEPT ![s] = "done"]
          /\ UNCHANGED send_task
    /\ UNCHANGED <<regVars, busVars, pc, cursor, snapshot, open, conn, subAt,
                   snapAt, fwd>>

\* the peer closes the websocket, or the transport breaks
conn_close(s) ==
    /\ pc[s] # "new"
    /\ open[s]
    /\ open' = [open EXCEPT ![s] = FALSE]
    /\ UNCHANGED <<regVars, busVars, pc, cursor, snapshot, send_task, recv_task,
                   conn, subAt, snapAt, fwd>>

handle_socket(s) ==
    \/ subscribe(s)
    \/ read_snapshot(s)
    \/ send_initial(s)
    \/ forward(s)
    \/ lagged(s)
    \/ recv_end(s)
    \/ select(s)
    \/ cancelled(s)

\* ------------------------------------------------------------ the system
\* main, lines 36-52: empty registry, a channel nobody has subscribed to
Init ==
    /\ players = <<>>
    /\ writer = NoWriter
    /\ bus = <<>>
    /\ sent = <<>>
    /\ resp = [kind |-> "none"]
    /\ created = <<>>
    /\ pc = [s \in Sessions |-> "new"]
    /\ cursor = [s \in Sessions |-> 0]
    /\ snapshot = [s \in Sessions |-> <<>>]
    /\ open = [s \in Sessions |-> TRUE]
    /\ send_task = [s \in Sessions |-> "none"]
    /\ recv_task = [s \in Sessions |-> "none"]
    /\ conn = [s \in Sessions |-> <<>>]
    /\ subAt = [s \in Sessions |-> 0]
    /\ snapAt = [s \in Sessions |-> 0]
    /\ fwd = [s \in Sessions |-> <<>>]

\* a run is cut off by the work it has done: one unit for each tx.send call,
\* two for each connection opened
Started == Cardinality({s \in Sessions : pc[s] # "new"})
Work == Len(sent) + 2 * Started
CanPublish(max) == Work + 1 <= max
CanConnect(max) == Work + 2 <= max

\* connections are interchangeable: they are numbered in the order they are opened
NextSession(s) == s = Started + 1

NextWithin(max) ==
    \/ CanPublish(max) /\ \E p \in Points : create_lock(p[1], p[2])
    \/ create_send
    \/ create_return
    \/ CanPublish(max) /\ \E id \in MoveIds, p \in Points : move_lock(id, p[1], p[2])
    \/ move_set_z
    \/ move_send
    \/ move_return
    \/ CanPublish(max) /\ clear_lock
    \/ clear_send
    \/ clear_return
    \/ get_players
    \/ CanConnect(max) /\ \E s \in Sessions : NextSession(s) /\ subscribe(s)
    \/ \E s \in Sessions : read_snapshot(s)
    \/ \E s \in Sessions : send_initial(s)
    \/ \E s \in Sessions : forward(s)
    \/ \E s \in Sessions : recv_end(s)
    \/ \E s \in Sessions : select(s)
    \/ \E s \in Sessions : cancelled(s)
    \/ \E s \in Sessions : conn_close(s)

Next == NextWithin(MaxWork)

Spec == Init /\ [][Next]_vars

\* list_maps on its own: any directory, listed any number of times
MapsSpec == Init /\ [][list_maps]_vars

\* ------------------------------------------------------ the client's view
Range(f) == {f[i] : i \in DOMAIN f}
Last(q) == q[Len(q)]
HasId(ps, id) == \E i \in DOMAIN ps : ps[i].id = id
DistinctIds(ps) == \A i, j \in DOMAIN ps : ps[i].id = ps[j].id => i = j

\* the list a client holds after one more message: initial_state sets it,
\* player_created inserts or overwrites by id, player_moved updates by id,
\* all_cleared empties it
Apply(list, msg) ==
    IF msg.type = "initial_state" THEN msg.players
    ELSE IF msg.type = "player_created" THEN
        IF HasId(list, msg.player.id)
        THEN [i \in DOMAIN list |->
                 IF list[i].id = msg.player.id THEN msg.player ELSE list[i]]
        ELSE Append(list, msg.player)
    ELSE IF msg.type = "player_moved" THEN
        [i \in DOMAIN list |->
            IF list[i].id = msg.id THEN [list[i] EXCEPT !.x = msg.x, !.z = msg.z]
            ELSE list[i]]
    ELSE IF msg.type = "all_cleared" THEN <<>>
    ELSE list

RECURSIVE ReplayFrom(_, _, _)
ReplayFrom(list, msgs, i) ==
    IF i > Len(msgs) THEN list ELSE ReplayFrom(Apply(list, msgs[i]), msgs, i + 1)

Replay(msgs) == ReplayFrom(<<>>, msgs, 1)

\* the session got its initial_state and every value published since it subscribed
GotAll(s) ==
    /\ conn[s] # <<>>
    /\ fwd[s] = [i \in 1..(Len(sent) - subAt[s]) |-> subAt[s] + i]

\* no handler sits between the start of its mutation and the tx.send that
\* announces it
Announced == writer.pc \in {"half", "mutated"} => writer.ev = NoEvent

\* C1: snapshot-consistency.  Whenever a session has received its initial_state
\* and every event published so far, replaying what it received yields exactly
\* the registry's contents, and no id twice.
C1_SnapshotConsistency ==
    \A s \in Sessions :
        GotAll(s) /\ Announced =>
            /\ Replay(conn[s]) = players
            /\ DistinctIds(Replay(conn[s]))

\* the case of C1 where an event from before the snapshot is replayed on top of it
C1_Witness ==
    \E s \in Sessions :
        /\ GotAll(s) /\ Announced
        /\ Len(fwd[s]) >= 2
        /\ fwd[s][1] <= snapAt[s]
        /\ players # <<>>

\* C2: no mutation already contained in a session's snapshot is also delivered
\* to that session as a bus event.
C2_NoSnapshotDuplicate ==
    \A s \in Sessions : \A i \in DOMAIN fwd[s] : fwd[s][i] > snapAt[s]

\* a session that still holds its receiver and whose websocket is open
Attached(s) == RxAlive(s) /\ open[s]

Pending(s) == {bus[i].n : i \in cursor[s]..Len(bus)}

\* C3: every mutation published after a session's snapshot read has been
\* forwarded to the session or waits in its queue, while the session is attached.
C3_NoLossAfterSnapshot ==
    \A s \in Sessions :
        pc[s] \in {"snapshot", "streaming", "closed"} /\ Attached(s) =>
            \A n \in (snapAt[s] + 1)..Len(sent) :
                n \in Range(fwd[s]) \cup Pending(s)

\* a mutation committed after the snapshot reached the session after initial_state
C3_Witness ==
    \E s \in Sessions :
        /\ Attached(s)
        /\ Len(sent) > snapAt[s]
        /\ conn[s] # <<>> /\ conn[s][1].type = "initial_state"
        /\ fwd[s] # <<>> /\ Last(fwd[s]) = Len(sent)
        /\ Last(conn[s]) = Last(sent)

\* C4: an id returned by create is never returned by a later create.
C4_IdsNeverReused == DistinctIds(created)

\* C5: without a clear, the ids create returned are pairwise distinct; and the
\* ids held in the registry are pairwise distinct in every state.
C5_IdsDistinct ==
    /\ (\A n \in DOMAIN sent : sent[n] # AllCleared) => DistinctIds(created)
    /\ DistinctIds(players)

C5_Witness ==
    /\ Len(created) >= 2
    /\ \A n \in DOMAIN sent : sent[n] # AllCleared
    /\ Len(players) >= 2

\* C6: a move that names an id the registry does not hold changes nothing in the
\* registry, publishes nothing, and answers not-found.
C6_MoveUnknownId ==
    [][/\ \A id \in MoveIds, p \in Points :
            (writer = NoWriter /\ writer' # writer /\ ~HasId(players, id)
                    /\ move_lock(id, p[1], p[2])) =>
                /\ players' = players
                /\ writer'.resp = [kind |-> "not_found", id |-> id]
       /\ (writer.op = "move" /\ ~HasId(players, writer.req)) =>
            /\ players' = players /\ sent' = sent /\ bus' = bus
            /\ writer' # writer =>
                /\ writer' = NoWriter
                /\ resp' = [kind |-> "not_found", id |-> writer.req]
      ]_vars

\* a not-found answer came back while the registry holds somebody else
C6_Witness ==
    /\ resp.kind = "not_found"
    /\ players # <<>>
    /\ ~HasId(players, resp.id)
    /\ writer = NoWriter

\* ---------------------------------------------------------------- fairness
\* The runtime keeps polling a task that can make progress, a handler that holds
\* the write guard runs to its return without suspending, and tokio's RwLock is
\* fair (FIFO), so a waiting reader gets the lock although writers keep coming.
LiveNext == NextWithin(MaxLiveWork)

FairSpec ==
    /\ Init /\ [][LiveNext]_vars
    /\ WF_vars(create_send \/ create_return)
    /\ WF_vars(move_set_z \/ move_send \/ move_return)
    /\ WF_vars(clear_send \/ clear_return)
    /\ \A s \in Sessions :
        /\ SF_vars(read_snapshot(s))
        /\ WF_vars(send_initial(s))
        /\ WF_vars(forward(s))

\* the session is attached and has not yet forwarded an all_cleared that was
\* published after it subscribed
Owed(s) ==
    /\ Attached(s)
    /\ \E n \in DOMAIN sent :
        sent[n] = AllCleared /\ subAt[s] < n /\ n \notin Range(fwd[s])

\* C7: every all_cleared published while a session holds a receiver is
\* eventually forwarded to that session, unless the session detaches.
C7_ClearReachesSubscribers ==
    \A s \in Sessions : Owed(s) ~> ~Owed(s)

\* an all_cleared published after another event has reached an attached session
C7_Witness ==
    \E s \in Sessions :
        /\ Attached(s)
        /\ Len(fwd[s]) >= 2
        /\ sent[Last(fwd[s])] = AllCleared
        /\ Last(conn[s]) = AllCleared

\* C8: once the last publication is all_cleared, list() answers the empty
\* sequence; clear empties the registry and succeeds, also on an empty registry.
C8_ClearCompleteness ==
    [][/\ (get_players /\ sent # <<>> /\ Last(sent) = AllCleared) =>
            resp'.players = <<>>
       /\ clear_lock => players' = <<>> /\ writer'.resp = [kind |-> "cleared"]
       /\ clear_return => players' = <<>> /\ resp' = [kind |-> "cleared"]
      ]_vars

\* list() answered empty after a clear that removed somebody
C8_Witness ==
    /\ resp = [kind |-> "list", players |-> <<>>]
    /\ Len(sent) >= 2
    /\ Last(sent) = AllCleared
    /\ sent[Len(sent) - 1].type = "player_created"

\* C9: what a session forwards is a subsequence of the publication sequence:
\* the publication numbers it forwards increase strictly, and each forwarded
\* message is the value published under that number.
C9_OrderPreserved ==
    \A s \in Sessions :
        /\ \A i, j \in DOMAIN fwd[s] : i < j => fwd[s][i] < fwd[s][j]
        /\ fwd[s] # <<>> => Len(conn[s]) = Len(fwd[s]) + 1
        /\ \A i \in DOMAIN fwd[s] : conn[s][i + 1] = sent[fwd[s][i]]

\* a session forwarded two different events
C9_Witness ==
    \E s \in Sessions :
        /\ Len(fwd[s]) >= 2
        /\ sent[fwd[s][1]] # sent[fwd[s][2]]

\* C10: the first message on a connection is the initial_state built from the
\* session's snapshot, no later message is an initial_state, and no initial_state
\* is ever published on the bus.
C10_InitialStateFirst ==
    /\ \A s \in Sessions :
        /\ conn[s] # <<>> => conn[s][1] = InitialState(snapshot[s])
        /\ \A i \in DOMAIN conn[s] : i > 1 => conn[s][i].type # "initial_state"
        /\ fwd[s] # <<>> => conn[s] # <<>>
    /\ \A n \in DOMAIN sent : sent[n].type # "initial_state"
    /\ \A i \in DOMAIN bus : bus[i].ev.type # "initial_state"

\* two sessions have their initial_state and the first has forwarded an event
C10_Witness ==
    /\ \A s \in Sessions : conn[s] # <<>> /\ conn[s][1].type = "initial_state"
    /\ \E s \in Sessions : Len(conn[s]) >= 2
    /\ \E s \in Sessions : snapshot[s] # <<>>

\* ------------------------------------------------------ a slow subscriber
\* Runs in which one client connects first and then falls behind: clear requests
\* arrive once its session streams, create and move requests once the channel is
\* full, the peer keeps its websocket open until then and takes MaxLagTaken
\* messages before it stalls, and the run ends MaxLagExtra publications past the
\* channel's capacity.
CanOverflow == Len(sent) < Capacity + MaxLagExtra
CapacityPublished == Len(sent) >= Capacity
CanTake == Len(fwd[1]) < MaxLagTaken

LagNext ==
    \/ sent = <<>> /\ subscribe(1)
    \/ read_snapshot(1)
    \/ send_initial(1)
    \/ pc[1] = "streaming" /\ CanOverflow /\ clear_lock
    \/ clear_send
    \/ clear_return
    \/ CapacityPublished /\ CanOverflow /\ \E p \in Points : create_lock(p[1], p[2])
    \/ create_send
    \/ create_return
    \/ CapacityPublished /\ CanOverflow
            /\ \E id \in MoveIds, p \in Points : move_lock(id, p[1], p[2])
    \/ move_set_z
    \/ move_send
    \/ move_return
    \/ CanTake /\ forward(1)
    \/ lagged(1)
    \/ recv_end(1)
    \/ select(1)
    \/ cancelled(1)
    \/ CapacityPublished /\ conn_close(1)

LagSpec == Init /\ [][LagNext]_vars

\* the runtime polls a forwarding task whose receiver was overtaken, polls
\* handle_socket when a join handle is ready, and drops an aborted task
LagFairSpec ==
    /\ LagSpec
    /\ WF_vars(lagged(1))
    /\ WF_vars(select(1))
    /\ WF_vars(cancelled(1))

\* --------------------------------------------------------------- C11..C20
NoReceiver == \A s \in Sessions : ~RxAlive(s)

\* the registry ps shows the mutation of the handler w
Committed(w, ps) ==
    /\ w.op = "create" => w.resp.player \in Range(ps)
    /\ w.op = "move" =>
        \E i \in DOMAIN ps :
            ps[i].id = w.req /\ ps[i].x = w.resp.x /\ ps[i].z = w.resp.z
    /\ w.op = "clear" => ps = <<>>

\* C11: a session never forwards a value published before it subscribed; a
\* tx.send with no receiver drops the value, and the handler still keeps its
\* mutation and returns its normal response.
C11_NothingFromBeforeSubscribe ==
    [][/\ \A s \in Sessions : \A i \in DOMAIN fwd'[s] : fwd'[s][i] > subAt'[s]
       /\ (sent' # sent /\ NoReceiver) =>
            /\ bus' = bus /\ players' = players
            /\ writer' = [writer EXCEPT !.pc = "published"]
       /\ (writer.pc = "published" /\ writer' # writer) =>
            /\ writer' = NoWriter
            /\ resp' = writer.resp
            /\ Committed(writer, players')
      ]_vars

\* a create was published to nobody and kept; a later session forwarded a later event
C11_Witness ==
    \E s \in Sessions :
        /\ subAt[s] >= 1
        /\ fwd[s] # <<>>
        /\ Len(bus) < Len(sent)
        /\ sent[1].type = "player_created"
        /\ sent[1].player \in Range(players)
        /\ writer = NoWriter

\* a session holds a receiver with at least Capacity unread values
QueueFull(s) == RxAlive(s) /\ Unread(bus, cursor[s]) >= Capacity

\* C12: a handler that holds the write guard can always take its next step, the
\* tx.send and then the return, whatever the receivers have left unread.
C12_PublisherNeverBlocked ==
    /\ (writer.pc = "mutated" /\ writer.ev # NoEvent) =>
        ENABLED (create_send \/ move_send \/ clear_send)
    /\ (writer.pc = "published" \/ (writer.pc = "mutated" /\ writer.ev = NoEvent)) =>
        ENABLED (create_return \/ move_return \/ clear_return)

\* a create was published and answered while a live receiver's queue was full
C12_Witness ==
    /\ resp.kind = "player"
    /\ writer = NoWriter
    /\ Last(sent).type = "player_created"
    /\ QueueFull(1)
    /\ Last(bus).ev = Last(sent)

\* every entity carries the two coordinates of one request
Whole(ps) == \A i \in DOMAIN ps : <<ps[i].x, ps[i].z>> \in Points

\* C13: what get_players returns and what a session clones for initial_state is
\* the registry after a prefix of the serialized mutations, namely all those
\* published up to the read, and never holds an entity with the x of one
\* request and the z of another.
C13_NoTornRead ==
    [][/\ (resp' # resp /\ resp'.kind = "list") =>
            /\ Whole(resp'.players)
            /\ resp'.players = Replay(sent)
       /\ \A s \in Sessions :
            (pc[s] = "subscribed" /\ pc'[s] = "snapshot") =>
                /\ Whole(snapshot'[s])
                /\ snapshot'[s] = Replay(sent)]_vars

\* get_players returned a player at the coordinates a move gave it
C13_Witness ==
    /\ resp.kind = "list"
    /\ sent # <<>>
    /\ Last(sent).type = "player_moved"
    /\ \E i \in DOMAIN resp.players :
        /\ resp.players[i].id = Last(sent).id
        /\ resp.players[i].x = Last(sent).x
        /\ \E j \in DOMAIN created :
            created[j].id = Last(sent).id /\ created[j].x # Last(sent).x

\* the registry after one more published event: player_created appends,
\* player_moved updates by id, all_cleared empties
Commit(list, ev) ==
    IF ev.type = "player_created" THEN Append(list, ev.player)
    ELSE IF ev.type = "player_moved" THEN
        [i \in DOMAIN list |->
            IF list[i].id = ev.id THEN [list[i] EXCEPT !.x = ev.x, !.z = ev.z]
            ELSE list[i]]
    ELSE <<>>

RECURSIVE CommitFrom(_, _, _)
CommitFrom(list, evs, i) ==
    IF i > Len(evs) THEN list ELSE CommitFrom(Commit(list, evs[i]), evs, i + 1)

CommitAll(evs) == CommitFrom(<<>>, evs, 1)

\* C14: whenever no handler holds the write lock the registry is the replay of
\* every event published so far, in publication order, from the empty registry;
\* a handler that has mutated and not yet published is ahead by exactly its own
\* event, so publications are made in the order the mutations were committed.
C14_RegistryIsReplay ==
    /\ writer = NoWriter => players = CommitAll(sent)
    /\ writer.pc = "published" => players = CommitAll(sent)
    /\ (writer.pc = "mutated" /\ writer.ev # NoEvent) =>
        players = Commit(CommitAll(sent), writer.ev)

\* a create, a move and a clear have all been published, a player exists and
\* no handler is running
C14_Witness ==
    /\ writer = NoWriter
    /\ players # <<>>
    /\ {"player_created", "player_moved", "all_cleared"} \subseteq
           {sent[i].type : i \in DOMAIN sent}

\* ------------------------------------------------------------- teardown
\* besides what FairSpec assumes, the runtime polls a task whose socket has
\* ended, polls handle_socket when a join handle is ready, and drops an aborted
\* task
TeardownSpec ==
    /\ FairSpec
    /\ \A s \in Sessions :
        /\ WF_vars(recv_end(s))
        /\ WF_vars(select(s))
        /\ WF_vars(cancelled(s))

\* handle_socket has returned and neither task of the session is alive
Stopped(s) ==
    /\ pc[s] = "closed"
    /\ send_task[s] = "done"
    /\ recv_task[s] = "done"

\* C15: a connection on which a write has failed takes no further message,
\* initial_state or event, and its session goes on to Closed with both tasks
\* stopped.
C15_WriteFailureTerminal ==
    /\ [][\A s \in Sessions :
            ~open[s] => ~open'[s] /\ conn'[s] = conn[s] /\ fwd'[s] = fwd[s]]_vars
    /\ \A s \in Sessions : (~open[s] /\ pc[s] = "streaming") ~> Stopped(s)

\* the write of initial_state failed, an event published afterwards was never
\* forwarded, and the session is closed with both tasks stopped
C15_Witness ==
    \E s \in Sessions :
        /\ Stopped(s)
        /\ conn[s] = <<>>
        /\ subAt[s] < Len(bus)

\* C16: create(x, z) builds an entity with the request's x and z, no y and an id
\* no entity of the registry holds at that moment, and appends it at the end of
\* the registry; the handler then publishes exactly one player_created carrying
\* that entity, which is queued for every session holding a receiver, and
\* returns the entity.
C16_CreateCorrect ==
    [][/\ \A p \in Points :
            (writer = NoWriter /\ writer' # writer /\ create_lock(p[1], p[2])) =>
                LET e == writer'.resp.player IN
                /\ e.x = p[1] /\ e.z = p[2] /\ e.y = "None"
                /\ ~HasId(players, e.id)
                /\ players' = Append(players, e)
                /\ writer'.pc = "mutated"
       /\ writer.op = "create" =>
            LET e == writer.resp.player IN
            /\ players' = players /\ Last(players) = e
            /\ IF writer' = writer THEN sent' = sent
               ELSE IF writer.pc = "mutated"
               THEN /\ sent' = Append(sent, Created(e))
                    /\ writer' = [writer EXCEPT !.pc = "published"]
                    /\ \A s \in Sessions :
                        RxAlive(s) =>
                            /\ Last(bus') = [ev |-> Created(e), n |-> Len(sent')]
                            /\ Len(bus') \in cursor[s]..Len(bus')
               ELSE /\ writer.pc = "published" /\ writer' = NoWriter
                    /\ sent' = sent /\ Last(sent) = Created(e)
                    /\ resp' = [kind |-> "player", player |-> e]]_vars

\* a second player was created and returned, and a session holding a receiver
\* has forwarded its player_created
C16_Witness ==
    /\ writer = NoWriter /\ resp.kind = "player"
    /\ Len(players) >= 2 /\ Last(players) = resp.player
    /\ \E s \in Sessions :
        /\ fwd[s] # <<>> /\ Last(fwd[s]) = Len(sent)
        /\ Last(conn[s]) = Created(resp.player)

\* ------------------------------------------------------------- the map list
Files(dir) == {dir[i].name : i \in {j \in DOMAIN dir : dir[j].is_file}}

\* C17: the list is in ascending order of the integer in the second '_' token,
\* names without one come after all numeric names in lexicographic order, and a
\* directory holding tile_2.json, tile_10.json and overview.json is returned as
\* tile_2.json, tile_10.json, overview.json.
C17_MapsOrder ==
    resp.kind = "maps" =>
        /\ \A i, j \in DOMAIN resp.maps :
            i < j =>
                LET num_a == extract_num(resp.maps[i])
                    num_b == extract_num(resp.maps[j])
                IN  /\ num_a # None /\ num_b # None => num_a[1] <= num_b[1]
                    /\ num_a = None => num_b = None
                    /\ num_a = None /\ num_b = None =>
                        cmp(resp.maps[i], resp.maps[j]) = "Less"
        /\ Files(resp.dir) = {tile_2_json, tile_10_json, overview_json} =>
            resp.maps = <<tile_2_json, tile_10_json, overview_json>>

C19_PublishAfterRelease ==
    [][sent' # sent => Committed(writer, players) /\ writer = NoWriter]_vars

\* C19, as the handlers do it: tx.send is called after the whole mutation and
\* while the handler still holds the write lock; the registry is not touched by
\* the send, and the lock is released by the return that follows it.
C19_PublishUnderLock ==
    [][/\ sent' # sent =>
            /\ writer.pc = "mutated" /\ writer.ev # NoEvent
            /\ Committed(writer, players)
            /\ sent' = Append(sent, writer.ev)
            /\ players' = players
            /\ writer' = [writer EXCEPT !.pc = "published"]
       /\ (writer # NoWriter /\ writer' = NoWriter) =>
            /\ sent' = sent
            /\ writer.pc = "published" \/ writer.ev = NoEvent]_vars

\* a session has forwarded a player_moved whose handler still holds the lock
C19_Witness ==
    /\ writer.op = "move" /\ writer.pc = "published"
    /\ \E s \in Sessions :
        /\ fwd[s] # <<>> /\ Last(fwd[s]) = Len(sent)
        /\ Last(conn[s]) = writer.ev

\* ------------------------------------------------------------- overflow
\* the forwarded values are the publications subAt + 1, subAt + 2, ... in order
GapFree(s) == fwd[s] = [i \in 1..Len(fwd[s]) |-> subAt[s] + i]

\* C20: a session more than 100 values behind forwards nothing more, and what a
\* session has forwarded is a gap-free run of the publications from its
\* subscription point.
C20_DisconnectAtRequested ==
    /\ [][\A s \in Sessions :
            Unread(bus, cursor[s]) > RequestedCapacity => fwd'[s] = fwd[s]]_vars
    /\ [](\A s \in Sessions : GapFree(s))

\* the session's receiver has more unread values than the channel keeps
Behind(s) == Unread(bus, cursor[s]) > Capacity

\* C20, with the capacity the channel has: a session more than 128 values behind
\* forwards nothing more, its forwarding task ends and the session closes with
\* both tasks stopped; what a session has forwarded is a gap-free run of the
\* publications from its subscription point.
C20_DisconnectOnLag ==
    /\ [][\A s \in Sessions :
            Behind(s) => fwd'[s] = fwd[s] /\ conn'[s] = conn[s] /\ Behind(s)']_vars
    /\ [](\A s \in Sessions : GapFree(s))
    /\ \A s \in Sessions :
        (Behind(s) /\ send_task[s] \in {"running", "cancelling"}) ~> Stopped(s)

\* a session that had forwarded an event was overtaken on an open connection
\* and is closed
C20_Witness ==
    /\ Behind(1) /\ open[1]
    /\ Stopped(1)
    /\ fwd[1] # <<>>

====
